---------------------------- MODULE Spec2Model ----------------------------
(***************************************************************************)
(* A model of src/transformer.py: the causal mask constructor, the scaled  *)
(* dot-product attention primitive (in fixed-point arithmetic), the object *)
(* graph built by make_model (parameter identities, dropout rates, the     *)
(* Xavier initialisation loop) and the forward pass of the encoder-decoder *)
(* (as the ordered tape of tensor operations it executes).                 *)
(***************************************************************************)
EXTENDS Integers, Sequences, FiniteSets, TLC

VARIABLES
    hp,         \* the arguments of make_model
    status,     \* "new" | "built" | "failed": the outcome of make_model
    model,      \* the module tree of the EncoderDecoder: path -> entry
    xavier,     \* tensor id -> number of nn.init.xavier_uniform_ calls on it
    training,   \* nn.Module.training of the model
    attnCache,  \* MultiHeadedAttention.attn of every attention module
    calls,      \* number of encode/decode/forward calls made so far
    last,       \* the last call: its arguments, its tape and its result
    causal,     \* the last result of subsequent_mask, or None
    attnIn,     \* the arguments of the last call of attention()
    attnOut     \* its two results: [out, p_attn]

vars == <<hp, status, model, xavier, training, attnCache, calls, last, causal,
          attnIn, attnOut>>

None == <<>>

(***************************************************************************)
(* Bounds of the model.                                                    *)
(***************************************************************************)
MaxN == 2          \* layers per stack
MaxDModel == 4     \* d_model
MaxHeads == 3      \* h
MaxLen == 2        \* sequence length of a call and size of a causal mask
MaxCalls == 2      \* encode/decode/forward calls in one behaviour
MaxKeys == 2       \* key positions of a call of attention()

Range(s) == {s[i] : i \in DOMAIN s}

RECURSIVE SumSeq(_)
SumSeq(s) == IF s = <<>> THEN 0 ELSE Head(s) + SumSeq(Tail(s))

MaxOf(S) == CHOOSE x \in S : \A y \in S : y <= x

(***************************************************************************)
(* subsequent_mask                                                         *)
(***************************************************************************)
\* np.ones(shape): shape is (1, rows, cols).
Ones(shape) ==
    [b \in 1..shape[1] |-> [i \in 1..shape[2] |-> [j \in 1..shape[3] |-> 1]]]

\* np.triu(m, k): keeps the entries on and above the k-th diagonal (j - i >= k)
\* of each trailing matrix, zeroes the others.
Triu(m, k) ==
    [b \in DOMAIN m |-> [i \in DOMAIN m[b] |-> [j \in DOMAIN m[b][i] |->
        IF j - i >= k THEN m[b][i][j] ELSE 0]]]

\* Faulty variant: the diagonal is masked out as well (k = 0 instead of k = 1).
subsequent_mask_diag(size) ==
    LET attn_shape == <<1, size, size>>
        upper == Triu(Ones(attn_shape), 0)
    IN  [b \in DOMAIN upper |-> [i \in DOMAIN upper[b] |->
            [j \in DOMAIN upper[b][i] |-> upper[b][i][j] = 0]]]

subsequent_mask(size) ==
    LET attn_shape == <<1, size, size>>
        upper == Triu(Ones(attn_shape), 1)
    IN  [b \in DOMAIN upper |-> [i \in DOMAIN upper[b] |->
            [j \in DOMAIN upper[b][i] |-> upper[b][i][j] = 0]]]

(***************************************************************************)
(* attention(): scaled dot-product attention on small integer tensors.     *)
(* query is n_q x d_k, key is n_k x d_k, value is n_k x d_v.  A weight is  *)
(* the fraction <<num, den>>.                                              *)
(***************************************************************************)
\* math.exp in fixed point: floor(10^6 * e^d) for d <= 0 (softmax subtracts
\* the row maximum, so no other argument occurs); e^-14 < 10^-6.
ExpFix(d) ==
    CASE d =   0 -> 1000000
      [] d =  -1 -> 367879
      [] d =  -2 -> 135335
      [] d =  -3 -> 49787
      [] d =  -4 -> 18315
      [] d =  -5 -> 6737
      [] d =  -6 -> 2478
      [] d =  -7 -> 911
      [] d =  -8 -> 335
      [] d =  -9 -> 123
      [] d = -10 -> 45
      [] d = -11 -> 16
      [] d = -12 -> 6
      [] d = -13 -> 2
      [] OTHER   -> 0

\* math.sqrt(d_k), for the d_k whose root is an integer.
Sqrt(n) == CHOOSE r \in 0..n : r * r = n

Dot(a, b) == SumSeq([c \in DOMAIN a |-> a[c] * b[c]])

\* torch.matmul(query, key.transpose(-2, -1)) / math.sqrt(d_k)
Scores(query, key) ==
    LET d_k == Len(query[1])
    IN  [i \in DOMAIN query |-> [j \in DOMAIN key |->
            Dot(query[i], key[j]) \div Sqrt(d_k)]]

\* The entry of mask that broadcasting pairs with position (i, j).
MaskAt(mask, i, j) ==
    mask[IF Len(mask) = 1 THEN 1 ELSE i][IF Len(mask[1]) = 1 THEN 1 ELSE j]

\* Whether mask broadcasts to the shape of scores.
Broadcastable(mask, scores) ==
    /\ Len(mask) \in {1, Len(scores)}
    /\ \A r \in DOMAIN mask : Len(mask[r]) \in {1, Len(scores[1])}

\* The fill value of masked scores.
Sentinel == -1000000000

\* Faulty variant: the mask is read the other way round (mask == 1 is filled).
masked_fill_inverted(scores, mask) ==
    [i \in DOMAIN scores |-> [j \in DOMAIN scores[i] |->
        IF MaskAt(mask, i, j) = TRUE THEN Sentinel ELSE scores[i][j]]]

\* scores.masked_fill(mask == 0, -1e9)
masked_fill(scores, mask) ==
    [i \in DOMAIN scores |-> [j \in DOMAIN scores[i] |->
        IF MaskAt(mask, i, j) = FALSE THEN Sentinel ELSE scores[i][j]]]

\* F.softmax(scores, dim = -1): every row is shifted by its maximum,
\* exponentiated and divided by its sum.
Softmax(scores) ==
    [i \in DOMAIN scores |->
        LET top == MaxOf(Range(scores[i]))
            e   == [j \in DOMAIN scores[i] |-> ExpFix(scores[i][j] - top)]
        IN  [j \in DOMAIN scores[i] |-> <<e[j], SumSeq(e)>>]]

\* nn.Dropout: d is [p |-> rate in tenths, training |-> BOOLEAN]; keep is the
\* random draw.  A dropped entry becomes 0, a kept one is scaled by 1/(1-p).
DropoutActive(d) == d.training /\ d.p > 0

Dropout(d, p_attn, keep) ==
    IF ~DropoutActive(d) THEN p_attn
    ELSE [i \in DOMAIN p_attn |-> [j \in DOMAIN p_attn[i] |->
            IF keep[i][j]
            THEN <<p_attn[i][j][1] * 10, p_attn[i][j][2] * (10 - d.p)>>
            ELSE <<0, p_attn[i][j][2] * (10 - d.p)>>]]

\* torch.matmul(p_attn, value): the weights of one row share a denominator.
WeightedSum(p_attn, value) ==
    [i \in DOMAIN p_attn |-> [c \in DOMAIN value[1] |->
        << SumSeq([j \in DOMAIN p_attn[i] |-> p_attn[i][j][1] * value[j][c]]),
           p_attn[i][1][2] >>]]

attention(query, key, value, mask, dropout, keep) ==
    LET scores == Scores(query, key)
        filled == IF mask # None THEN masked_fill(scores, mask) ELSE scores
        soft   == Softmax(filled)
        p_attn == IF dropout # None THEN Dropout(dropout, soft, keep) ELSE soft
    IN  [out |-> WeightedSum(p_attn, value), p_attn |-> p_attn]


(***************************************************************************)
(* The module tree.  A module is a function from attribute paths (as in    *)
(* named_parameters()) to entries, one per parameter tensor, buffer,       *)
(* nn.Dropout and integer attribute it holds, directly or in a submodule.  *)
(* id is the identity of a tensor's storage: the allocation that made it,  *)
(* named by the place of the allocation.  Every constructor is told the    *)
(* place (site) it is called at, and copy.deepcopy the place of the copy.  *)
(* Only the rank of a tensor is kept (vocabulary sizes and d_ff only set   *)
(* the extents).                                                           *)
(***************************************************************************)
Digits == <<"0", "1", "2", "3", "4", "5">>

Param(name, dim, site) ==
    <<name>> :> [kind |-> "param", id |-> site \o <<name>>, dim |-> dim,
                 val |-> 0]

Buffer(name, dim, site) ==
    <<name>> :> [kind |-> "buffer", id |-> site \o <<name>>, dim |-> dim,
                 val |-> 0]

\* nn.Dropout(p): p in tenths.
DropoutModule(name, p) ==
    <<name, "p">> :> [kind |-> "dropout", id |-> <<>>, dim |-> 0, val |-> p]

Attr(name, v) ==
    <<name>> :> [kind |-> "attr", id |-> <<>>, dim |-> 0, val |-> v]

IsTensor(e) == e.kind \in {"param", "buffer"}

\* self.<name> = module
Sub(name, m) == [p \in {<<name>> \o q : q \in DOMAIN m} |-> m[Tail(p)]]

PathsOf(m, kinds) == {p \in DOMAIN m : m[p].kind \in kinds}

TensorIds(m) == {m[p].id : p \in PathsOf(m, {"param", "buffer"})}

\* Faulty variant: copy.copy, which copies the module object but shares its tensors.
deepcopy_shallow(m, site) == m

\* copy.deepcopy(module): every tensor of the module gets new storage (one per
\* distinct tensor: the memo keeps sharing inside the copied module).
deepcopy(m, site) ==
    [p \in DOMAIN m |->
        IF IsTensor(m[p]) THEN [m[p] EXCEPT !.id = site \o @] ELSE m[p]]

\* clones(module, N): nn.ModuleList([copy.deepcopy(module) for _ in range(N)])
RECURSIVE clones(_, _, _)
clones(m, N, site) ==
    IF N = 0 THEN <<>>
    ELSE clones(m, N - 1, site)
             @@ Sub(Digits[N], deepcopy(m, site \o <<Digits[N]>>))

\* nn.Linear(in, out): weight of rank 2, bias of rank 1.
Linear(site) == Param("weight", 2, site) @@ Param("bias", 1, site)

\* nn.Embedding(vocab, d_model): weight of rank 2.
Embeddings(site) == Sub("lut", Param("weight", 2, site))

\* Whether `pe[:, cols] = src` is accepted: the source has as many columns as
\* the target slice, or one column (broadcast).
CanAssign(srcCols, dstCols) == srcCols = dstCols \/ srcCols = 1

\* PositionalEncoding.__init__: ok is FALSE when the constructor raises.  The
\* even columns 0::2 and the odd columns 1::2 of pe are both assigned a tensor
\* with len(arange(0, d_model, 2)) columns.
PositionalEncoding(d_model, dropout, site) ==
    LET divCols  == (d_model + 1) \div 2
        evenCols == (d_model + 1) \div 2
        oddCols  == d_model \div 2
        ok == CanAssign(divCols, evenCols) /\ CanAssign(divCols, oddCols)
    IN  [ok |-> ok,
         m  |-> IF ok THEN DropoutModule("dropout", dropout)
                             @@ Buffer("pe", 3, site)
                ELSE <<>>]

\* The default of the dropout argument of MultiHeadedAttention.__init__ (0.1).
DefaultDropout == 1

\* assert d_model % h == 0
AssertDivisible(d_model, h) == d_model % h = 0

\* MultiHeadedAttention.__init__: ok is FALSE when the assert fails.
MultiHeadedAttention(h, d_model, dropout, site) ==
    [ok |-> AssertDivisible(d_model, h),
     m  |-> IF AssertDivisible(d_model, h)
            THEN Attr("d_k", d_model \div h) @@ Attr("h", h)
                 @@ Sub("linears", clones(Linear(site \o <<"Linear">>), 4,
                                          site \o <<"linears">>))
                 @@ DropoutModule("dropout", dropout)
            ELSE <<>>]

PositionwiseFeedForward(dropout, site) ==
    Sub("w_1", Linear(site \o <<"w_1">>)) @@ Sub("w_2", Linear(site \o <<"w_2">>))
        @@ DropoutModule("dropout", dropout)

\* LayerNorm.__init__: two parameters of rank 1.
LayerNorm(site) == Param("a_2", 1, site) @@ Param("b_2", 1, site)

SublayerConnection(dropout, site) ==
    Sub("norm", LayerNorm(site \o <<"norm">>)) @@ DropoutModule("dropout", dropout)

EncoderLayer(size, self_attn, feed_forward, dropout, site) ==
    Sub("self_attn", self_attn) @@ Sub("feed_forward", feed_forward)
        @@ Sub("sublayer",
               clones(SublayerConnection(dropout, site \o <<"SublayerConnection">>),
                      2, site \o <<"sublayer">>))
        @@ Attr("size", size)

DecoderLayer(size, self_attn, src_attn, feed_forward, dropout, site) ==
    Attr("size", size) @@ Sub("self_attn", self_attn)
        @@ Sub("src_attn", src_attn)
        @@ Sub("feed_forward", feed_forward)
        @@ Sub("sublayer",
               clones(SublayerConnection(dropout, site \o <<"SublayerConnection">>),
                      3, site \o <<"sublayer">>))

\* Encoder.__init__ and Decoder.__init__: N clones of the layer, one LayerNorm.
Stack(layer, N, site) ==
    Sub("layers", clones(layer, N, site \o <<"layers">>))
        @@ Sub("norm", LayerNorm(site \o <<"norm">>))

Generator(site) == Sub("proj", Linear(site \o <<"proj">>))

\* nn.Sequential(a, b)
Sequential(a, b) == Sub("0", a) @@ Sub("1", b)

EncoderDecoder(encoder, decoder, src_embed, tgt_embed, generator) ==
    Sub("encoder", encoder) @@ Sub("decoder", decoder)
        @@ Sub("src_embed", src_embed) @@ Sub("tgt_embed", tgt_embed)
        @@ Sub("generator", generator)

\* model.parameters(): the distinct parameter tensors; buffers are not among
\* them.
parameters(m) ==
    {[id |-> m[p].id, dim |-> m[p].dim] : p \in PathsOf(m, {"param"})}

\* Faulty variant: biases and normalisation parameters are initialised as well.
NeedsXavier_any(dim) == dim > 0

\* if p.dim() > 1
NeedsXavier(dim) == dim > 1

\* for p in model.parameters(): if p.dim() > 1: nn.init.xavier_uniform_(p)
XavierLoop(m) ==
    [id \in TensorIds(m) |->
        Cardinality({q \in parameters(m) : q.id = id /\ NeedsXavier(q.dim)})]

\* make_model(src_vocab, tgt_vocab, N, d_model, d_ff, h, dropout): ok is FALSE
\* when a constructor raises.  c is copy.deepcopy.
make_model(N, d_model, h, dropout) ==
    LET attn     == MultiHeadedAttention(h, d_model, DefaultDropout, <<"attn">>)
        ff       == PositionwiseFeedForward(dropout, <<"ff">>)
        position == PositionalEncoding(d_model, dropout, <<"position">>)
        encoder  == Stack(EncoderLayer(d_model,
                                       deepcopy(attn.m, <<"c(attn)", "enc">>),
                                       deepcopy(ff, <<"c(ff)", "enc">>),
                                       dropout, <<"EncoderLayer">>),
                          N, <<"Encoder">>)
        decoder  == Stack(DecoderLayer(d_model,
                                       deepcopy(attn.m, <<"c(attn)", "dec", "1">>),
                                       deepcopy(attn.m, <<"c(attn)", "dec", "2">>),
                                       deepcopy(ff, <<"c(ff)", "dec">>),
                                       dropout, <<"DecoderLayer">>),
                          N, <<"Decoder">>)
        built    == EncoderDecoder(
                        encoder, decoder,
                        Sequential(Embeddings(<<"src_embed">>),
                                   deepcopy(position.m, <<"c(position)", "src">>)),
                        Sequential(Embeddings(<<"tgt_embed">>),
                                   deepcopy(position.m, <<"c(position)", "tgt">>)),
                        Generator(<<"Generator">>))
        ok       == attn.ok /\ position.ok
    IN  [ok     |-> ok,
         model  |-> IF ok THEN built ELSE <<>>,
         xavier |-> IF ok THEN XavierLoop(built) ELSE <<>>]

(***************************************************************************)
(* Construction: make_model on hyperparameters drawn from small sets.      *)
(***************************************************************************)
DropoutRates == {0, 1, 5}

Hyperparameters ==
    [N : 1..MaxN, d_model : 1..MaxDModel, h : 1..MaxHeads, dropout : DropoutRates]

MakeModel ==
    /\ status = "new"
    /\ LET r == make_model(hp.N, hp.d_model, hp.h, hp.dropout)
       IN  /\ status' = IF r.ok THEN "built" ELSE "failed"
           /\ model' = r.model
           /\ xavier' = r.xavier
    /\ UNCHANGED <<hp, training, attnCache, calls, last, causal, attnIn, attnOut>>

InitBuild ==
    /\ hp \in Hyperparameters
    /\ status = "new" /\ model = <<>> /\ xavier = <<>>
    /\ training = TRUE /\ attnCache = <<>> /\ calls = 0 /\ last = None
    /\ causal = None /\ attnIn = None /\ attnOut = None

NextBuild == MakeModel

SpecBuild == InitBuild /\ [][NextBuild]_vars

(***************************************************************************)
(* The forward pass.  A call executes tensor operations one after another; *)
(* its tape lists them in execution order.  A node is the operation, the   *)
(* module that ran it, the tape indices of its tensor arguments and its    *)
(* other operands (parameter identities, a mask, a dropout setting).       *)
(* Every forward method takes the position s it starts at (n: the number   *)
(* of nodes already on the tape; cache: self.attn of every attention       *)
(* module; call: the number of the call) and returns the fragment it       *)
(* executes: its nodes t, its writes w to self.attn, and the index v of    *)
(* the value it returns.  What is applied to a value (a module, a lambda,  *)
(* a tensor operation with its other operands) is a record f, and          *)
(* CallModule(s, f, x) is f(x).                                            *)
(***************************************************************************)
Tensor(path) == model[path].id

Val(path) == model[path].val

\* One operation, whose result is the node it adds.
Node(s, op, mod, args, attr) ==
    [t |-> <<[op |-> op, mod |-> mod, args |-> args, attr |-> attr]>>,
     w |-> <<>>,
     v |-> s.n + 1]

\* No operation: the value x is passed on.
Pass(x) == [t |-> <<>>, w |-> <<>>, v |-> x]

\* a, then b.
Then(a, b) == [t |-> a.t \o b.t, w |-> a.w \o b.w, v |-> b.v]

\* The position after the fragment a that started at s.
After(s, a) == [s EXCEPT !.n = @ + Len(a.t)]

\* The module mod (or a function of it) with its other arguments arg.
Fn(kind, mod, arg) == [kind |-> kind, mod |-> mod, arg |-> arg]

\* The tensor operation op of module mod, with the tensor operands before and
\* after the one it is applied to.
TensorOp(op, mod, before, after, attr) ==
    Fn("op", mod, [op |-> op, before |-> before, after |-> after, attr |-> attr])

RECURSIVE CallModule(_, _, _)

\* f(a): the fragment a, then f on its value.
ThenCall(s, a, f) == Then(a, CallModule(After(s, a), f, a.v))

\* nn.Linear.forward
LinearForward(s, mod, x) ==
    Node(s, "linear", mod, <<x>>,
         <<Tensor(mod \o <<"weight">>), Tensor(mod \o <<"bias">>)>>)

\* nn.Dropout.forward: the identity unless the module is in training mode
\* with p > 0, when it makes a random draw (a new one in every call).
DropoutForward(s, mod, x) ==
    LET d == [p |-> Val(mod \o <<"p">>), training |-> training]
    IN  Node(s, "dropout", mod, <<x>>,
             [p |-> d.p, training |-> d.training,
              draw |-> IF DropoutActive(d) THEN s.call ELSE 0])

\* LayerNorm.forward
LayerNormForward(s, mod, x) ==
    Node(s, "layernorm", mod, <<x>>,
         <<Tensor(mod \o <<"a_2">>), Tensor(mod \o <<"b_2">>)>>)

\* Embeddings.forward: self.lut(x) * math.sqrt(self.d_model)
EmbeddingsForward(s, mod, x) ==
    ThenCall(s, Node(s, "embedding", mod, <<x>>, <<Tensor(mod \o <<"lut", "weight">>)>>),
        TensorOp("scale", mod, <<>>, <<>>, None))

\* PositionalEncoding.forward: x + pe[:, :x.size(1)], then dropout.
PositionalEncodingForward(s, mod, x) ==
    ThenCall(s, Node(s, "add_pe", mod, <<x>>, <<Tensor(mod \o <<"pe">>)>>),
        Fn("dropout", mod \o <<"dropout">>, None))

\* if mask is not None: scores = scores.masked_fill(mask == 0, -1e9)
MaskedFill(s, mod, scores, mask) ==
    IF mask # None
    THEN ThenCall(s, scores, TensorOp("masked_fill", mod, <<>>, <<>>, mask))
    ELSE scores

\* attention(query, key, value, mask, dropout), called by module mod with its
\* own dropout: the output is the last node, p_attn the node before it.
AttentionTape(s, mod, query, key, value, mask) ==
    ThenCall(s,
        ThenCall(s,
            ThenCall(s,
                MaskedFill(s, mod,
                           Node(s, "scores", mod, <<query, key>>,
                                Val(mod \o <<"d_k">>)),
                           mask),
                TensorOp("softmax", mod, <<>>, <<>>, None)),
            Fn("dropout", mod \o <<"dropout">>, None)),
        TensorOp("matmul", mod, <<>>, <<value>>, None))

\* Faulty variant: the attention weights are memoised in self.attn and reused by the
\* next call instead of being recomputed.
attention_call_memo(s, mod, query, key, value, mask) ==
    IF s.cache[mod] # None
    THEN Node(s, "matmul_cached", mod, <<value>>, s.cache[mod])
    ELSE LET r == AttentionTape(s, mod, query, key, value, mask)
         IN  [r EXCEPT !.w = <<[mod |-> mod, call |-> s.call, node |-> r.v - 1]>>]

\* x, self.attn = attention(query, key, value, mask=mask, dropout=self.dropout)
attention_call(s, mod, query, key, value, mask) ==
    LET r == AttentionTape(s, mod, query, key, value, mask)
    IN  [r EXCEPT !.w = <<[mod |-> mod, call |-> s.call, node |-> r.v - 1]>>]

\* mask.unsqueeze(1)
Unsqueeze1(mask) == [b \in DOMAIN mask |-> <<mask[b]>>]

\* l(x).view(nbatches, -1, self.h, self.d_k).transpose(1, 2)
Project(s, mod, l, x) ==
    ThenCall(s, LinearForward(s, mod \o <<"linears", l>>, x),
        TensorOp("split_heads", mod, <<>>, <<>>,
                 <<Val(mod \o <<"h">>), Val(mod \o <<"d_k">>)>>))

\* [l(x).view(...).transpose(1, 2) for l, x in zip(self.linears, xs)]: the
\* first k projections; the value is the list of their results.
RECURSIVE Projections(_, _, _, _)
Projections(s, mod, k, xs) ==
    IF k = 0 THEN Pass(<<>>)
    ELSE LET prev == Projections(s, mod, k - 1, xs)
             y    == Project(After(s, prev), mod, Digits[k], xs[k])
         IN  [t |-> prev.t \o y.t, w |-> prev.w \o y.w, v |-> Append(prev.v, y.v)]

\* MultiHeadedAttention.forward
MultiHeadedAttentionForward(s, mod, query, key, value, mask) ==
    ThenCall(s,
        ThenCall(s,
            ThenCall(s, Projections(s, mod, 3, <<query, key, value>>),
                Fn("attention", mod,
                   IF mask # None THEN Unsqueeze1(mask) ELSE None)),
            TensorOp("merge_heads", mod, <<>>, <<>>,
                     <<Val(mod \o <<"h">>), Val(mod \o <<"d_k">>)>>)),
        Fn("linear", mod \o <<"linears", "3">>, None))

\* PositionwiseFeedForward.forward: w_2(dropout(relu(w_1(x))))
PositionwiseFeedForwardForward(s, mod, x) ==
    ThenCall(s,
        ThenCall(s,
            ThenCall(s, LinearForward(s, mod \o <<"w_1">>, x),
                TensorOp("relu", mod, <<>>, <<>>, None)),
            Fn("dropout", mod \o <<"dropout">>, None)),
        Fn("linear", mod \o <<"w_2">>, None))

\* lambda x: attn(x, x, x, mask) when memory is None and
\* lambda x: attn(x, m, m, mask) when memory is <<m>>.
AttnSublayer(mod, memory, mask) ==
    Fn("attn", mod, [memory |-> memory, mask |-> mask])

\* self.feed_forward
FeedForwardSublayer(mod) == Fn("ff", mod, None)

\* sublayer(x)
ApplySublayer(s, f, x) ==
    IF f.kind = "ff" THEN PositionwiseFeedForwardForward(s, f.mod, x)
    ELSE IF f.arg.memory = None
    THEN MultiHeadedAttentionForward(s, f.mod, x, x, x, f.arg.mask)
    ELSE MultiHeadedAttentionForward(s, f.mod, x, f.arg.memory[1],
                                     f.arg.memory[1], f.arg.mask)

\* Faulty variant: the pre-norm order x + dropout(sublayer(norm(x))).
SublayerConnectionForward_prenorm(s, mod, x, sublayer) ==
    ThenCall(s,
        ThenCall(s,
            ThenCall(s, LayerNormForward(s, mod \o <<"norm">>, x), sublayer),
            Fn("dropout", mod \o <<"dropout">>, None)),
        TensorOp("add", mod, <<x>>, <<>>, None))

\* SublayerConnection.forward: x + self.norm(self.dropout(sublayer(x)))
SublayerConnectionForward(s, mod, x, sublayer) ==
    ThenCall(s,
        ThenCall(s,
            ThenCall(s, CallModule(s, sublayer, x),
                Fn("dropout", mod \o <<"dropout">>, None)),
            Fn("layernorm", mod \o <<"norm">>, None)),
        TensorOp("add", mod, <<x>>, <<>>, None))

\* EncoderLayer.forward
EncoderLayerForward(s, mod, x, mask) ==
    ThenCall(s,
        SublayerConnectionForward(s, mod \o <<"sublayer", "0">>, x,
            AttnSublayer(mod \o <<"self_attn">>, None, mask)),
        Fn("sublayer", mod \o <<"sublayer", "1">>,
           FeedForwardSublayer(mod \o <<"feed_forward">>)))

\* Faulty variant: the self-attention is given the source mask.
DecoderLayerForward_srcmask(s, mod, x, memory, src_mask, tgt_mask) ==
    ThenCall(s,
        ThenCall(s,
            SublayerConnectionForward(s, mod \o <<"sublayer", "0">>, x,
                AttnSublayer(mod \o <<"self_attn">>, None, src_mask)),
            Fn("sublayer", mod \o <<"sublayer", "1">>,
               AttnSublayer(mod \o <<"src_attn">>, <<memory>>, src_mask))),
        Fn("sublayer", mod \o <<"sublayer", "2">>,
           FeedForwardSublayer(mod \o <<"feed_forward">>)))

\* DecoderLayer.forward
DecoderLayerForward(s, mod, x, memory, src_mask, tgt_mask) ==
    ThenCall(s,
        ThenCall(s,
            SublayerConnectionForward(s, mod \o <<"sublayer", "0">>, x,
                AttnSublayer(mod \o <<"self_attn">>, None, tgt_mask)),
            Fn("sublayer", mod \o <<"sublayer", "1">>,
               AttnSublayer(mod \o <<"src_attn">>, <<memory>>, src_mask))),
        Fn("sublayer", mod \o <<"sublayer", "2">>,
           FeedForwardSublayer(mod \o <<"feed_forward">>)))

\* len(self.layers)
NumLayers(mod) ==
    Cardinality({k \in DOMAIN Digits :
                   mod \o <<"layers", Digits[k], "size">> \in DOMAIN model})

\* for layer in self.layers: x = layer(x, mask)  -- the first k layers.
RECURSIVE EncoderLayers(_, _, _, _, _)
EncoderLayers(s, mod, k, x, mask) ==
    IF k = 0 THEN Pass(x)
    ELSE ThenCall(s, EncoderLayers(s, mod, k - 1, x, mask),
             Fn("encoder_layer", mod \o <<"layers", Digits[k]>>, mask))

\* Encoder.forward
EncoderForward(s, mod, x, mask) ==
    ThenCall(s, EncoderLayers(s, mod, NumLayers(mod), x, mask),
        Fn("layernorm", mod \o <<"norm">>, None))

\* Faulty variant: the layers are applied last to first.
RECURSIVE DecoderLayers_reversed(_, _, _, _, _, _, _)
DecoderLayers_reversed(s, mod, k, x, memory, src_mask, tgt_mask) ==
    IF k = 0 THEN Pass(x)
    ELSE ThenCall(s, DecoderLayers_reversed(s, mod, k - 1, x, memory, src_mask,
                                       tgt_mask),
             Fn("decoder_layer",
                mod \o <<"layers", Digits[NumLayers(mod) - k + 1]>>,
                [memory |-> memory, src_mask |-> src_mask,
                 tgt_mask |-> tgt_mask]))

\* for layer in self.layers: x = layer(x, memory, src_mask, tgt_mask)
RECURSIVE DecoderLayers(_, _, _, _, _, _, _)
DecoderLayers(s, mod, k, x, memory, src_mask, tgt_mask) ==
    IF k = 0 THEN Pass(x)
    ELSE ThenCall(s, DecoderLayers(s, mod, k - 1, x, memory, src_mask, tgt_mask),
             Fn("decoder_layer", mod \o <<"layers", Digits[k]>>,
                [memory |-> memory, src_mask |-> src_mask,
                 tgt_mask |-> tgt_mask]))

\* Decoder.forward
DecoderForward(s, mod, x, memory, src_mask, tgt_mask) ==
    ThenCall(s, DecoderLayers(s, mod, NumLayers(mod), x, memory, src_mask, tgt_mask),
        Fn("layernorm", mod \o <<"norm">>, None))

\* nn.Sequential(Embeddings, PositionalEncoding).forward
EmbedForward(s, mod, x) ==
    ThenCall(s, EmbeddingsForward(s, mod \o <<"0">>, x),
        Fn("positional_encoding", mod \o <<"1">>, None))

\* EncoderDecoder.encode
encode(s, src, src_mask) ==
    ThenCall(s, EmbedForward(s, <<"src_embed">>, src),
        Fn("encoder", <<"encoder">>, src_mask))

\* EncoderDecoder.decode
decode(s, memory, src_mask, tgt, tgt_mask) ==
    ThenCall(s, EmbedForward(s, <<"tgt_embed">>, tgt),
        Fn("decoder", <<"decoder">>,
           [memory |-> memory, src_mask |-> src_mask, tgt_mask |-> tgt_mask]))

\* EncoderDecoder.forward:
\* self.decode(self.encode(src, src_mask), src_mask, tgt, tgt_mask)
forward(s, src, tgt, src_mask, tgt_mask) ==
    ThenCall(s, encode(s, src, src_mask),
        Fn("decode", <<>>,
           [src_mask |-> src_mask, tgt |-> tgt, tgt_mask |-> tgt_mask]))

\* f(x): the forward method of the module, the body of the lambda, or the
\* tensor operation.
CallModule(s, f, x) ==
    CASE f.kind = "op" ->
            Node(s, f.arg.op, f.mod, f.arg.before \o <<x>> \o f.arg.after,
                 f.arg.attr)
      [] f.kind = "linear" -> LinearForward(s, f.mod, x)
      [] f.kind = "dropout" -> DropoutForward(s, f.mod, x)
      [] f.kind = "layernorm" -> LayerNormForward(s, f.mod, x)
      [] f.kind = "positional_encoding" -> PositionalEncodingForward(s, f.mod, x)
      [] f.kind = "attention" ->
            attention_call(s, f.mod, x[1], x[2], x[3], f.arg)
      [] f.kind \in {"attn", "ff"} -> ApplySublayer(s, f, x)
      [] f.kind = "sublayer" -> SublayerConnectionForward(s, f.mod, x, f.arg)
      [] f.kind = "encoder_layer" -> EncoderLayerForward(s, f.mod, x, f.arg)
      [] f.kind = "decoder_layer" ->
            DecoderLayerForward(s, f.mod, x, f.arg.memory, f.arg.src_mask,
                                f.arg.tgt_mask)
      [] f.kind = "encoder" -> EncoderForward(s, f.mod, x, f.arg)
      [] f.kind = "decoder" ->
            DecoderForward(s, f.mod, x, f.arg.memory, f.arg.src_mask,
                           f.arg.tgt_mask)
      [] f.kind = "decode" ->
            decode(s, x, f.arg.src_mask, f.arg.tgt, f.arg.tgt_mask)

(***************************************************************************)
(* Calls of encode, decode and forward on a model built by make_model.     *)
(* The tape of a call depends on the layer count and the dropout rates     *)
(* only, so the other hyperparameters are fixed.  Masks are padding masks  *)
(* of a batch of one sequence, alone or combined with the causal mask.     *)
(***************************************************************************)
RunHyperparameters ==
    {c \in Hyperparameters : c.d_model = 2 /\ c.h = 2 /\ c.dropout \in {0, 1}}

\* (sequence != pad).unsqueeze(-2) of a sequence of n tokens, the first len
\* of which are no padding: shape (1, 1, n).
PadMask(n, len) == << << [j \in 1..n |-> j <= len] >> >>

\* pad & causal, broadcast to shape (1, n, n).
MaskAnd(pad, sub) ==
    [b \in DOMAIN sub |-> [i \in DOMAIN sub[b] |-> [j \in DOMAIN sub[b][i] |->
        pad[1][1][j] /\ sub[b][i][j]]]]

\* The sequences of a call have MaxLen positions, the last of which may be
\* padding.
PadLens == {len \in 1..MaxLen : len >= MaxLen - 1}

SrcMasks == {PadMask(MaxLen, len) : len \in PadLens}

CausalTgtMasks ==
    {MaskAnd(PadMask(MaxLen, len), subsequent_mask(MaxLen)) : len \in PadLens}

TgtMasks == {PadMask(MaxLen, len) : len \in PadLens} \cup CausalTgtMasks

Input(name) == [op |-> "input", mod |-> <<>>, args |-> <<>>, attr |-> name]

\* The tensor arguments of a call: the first nodes of its tape.
Inputs(op) ==
    CASE op = "encode"  -> <<Input("src")>>
      [] op = "decode"  -> <<Input("memory"), Input("tgt")>>
      [] op = "forward" -> <<Input("src"), Input("tgt")>>

\* The attention modules of a module tree.
AttnModules(m) ==
    {SubSeq(p, 1, Len(p) - 1) : p \in {q \in DOMAIN m : q[Len(q)] = "d_k"}}

FreshCache == [mod \in AttnModules(model) |-> None]

\* The caches after the writes w, in their order.
RECURSIVE Written(_, _)
Written(cache, w) ==
    IF w = <<>> THEN cache
    ELSE Written([cache EXCEPT ![Head(w).mod] =
                      [call |-> Head(w).call, node |-> Head(w).node]],
                 Tail(w))

\* What a call with the given arguments does from the given caches: its
\* tape, its result and the caches it leaves.
Run(op, src_mask, tgt_mask, cache, call) ==
    LET s == [n |-> Len(Inputs(op)), cache |-> cache, call |-> call]
        r == CASE op = "encode"  -> encode(s, 1, src_mask)
               [] op = "decode"  -> decode(s, 1, src_mask, 2, tgt_mask)
               [] op = "forward" -> forward(s, 1, 2, src_mask, tgt_mask)
    IN  [t |-> Inputs(op) \o r.t, v |-> r.v, cache |-> Written(cache, r.w)]

\* A call on the built model: what it returns and what it leaves in self.attn.
Call(op, src_mask, tgt_mask) ==
    LET r == Run(op, src_mask, tgt_mask, attnCache, calls + 1)
    IN  /\ last' = [op |-> op, src_mask |-> src_mask, tgt_mask |-> tgt_mask,
                    t |-> r.t, v |-> r.v]
        /\ attnCache' = r.cache
        /\ calls' = calls + 1

Encode ==
    /\ status = "built"
    /\ calls < MaxCalls
    /\ \E src_mask \in SrcMasks : Call("encode", src_mask, None)
    /\ UNCHANGED <<hp, status, model, xavier, training, causal, attnIn, attnOut>>

Decode ==
    /\ status = "built"
    /\ calls < MaxCalls
    /\ \E src_mask \in SrcMasks, tgt_mask \in TgtMasks :
          Call("decode", src_mask, tgt_mask)
    /\ UNCHANGED <<hp, status, model, xavier, training, causal, attnIn, attnOut>>

Forward ==
    /\ status = "built"
    /\ calls < MaxCalls
    /\ \E src_mask \in SrcMasks, tgt_mask \in TgtMasks :
          Call("forward", src_mask, tgt_mask)
    /\ UNCHANGED <<hp, status, model, xavier, training, causal, attnIn, attnOut>>

Init ==
    /\ hp \in RunHyperparameters
    /\ status = "built"
    /\ model = make_model(hp.N, hp.d_model, hp.h, hp.dropout).model
    /\ xavier = make_model(hp.N, hp.d_model, hp.h, hp.dropout).xavier
    /\ training \in BOOLEAN
    /\ attnCache = FreshCache
    /\ calls = 0 /\ last = None
    /\ causal = None /\ attnIn = None /\ attnOut = None

Next == Encode \/ Decode \/ Forward

Spec == Init /\ [][Next]_vars

(***************************************************************************)
(* Calls of subsequent_mask.                                               *)
(***************************************************************************)
MaxSize == 120

SubsequentMask ==
    /\ causal = None
    /\ \E size \in 1..MaxSize : causal' = subsequent_mask(size)
    /\ UNCHANGED <<hp, status, model, xavier, training, attnCache, calls, last,
                   attnIn, attnOut>>

InitMask ==
    /\ hp = None /\ status = "new" /\ model = <<>> /\ xavier = <<>>
    /\ training = TRUE /\ attnCache = <<>> /\ calls = 0 /\ last = None
    /\ causal = None /\ attnIn = None /\ attnOut = None

NextMask == SubsequentMask

SpecMask == InitMask /\ [][NextMask]_vars

(***************************************************************************)
(* Calls of attention() on tensors drawn from small sets.                  *)
(***************************************************************************)
QueryLens == {1, 2}
QueryVecs == {<<-1000000000>>, <<1>>}
KeyVecs   == {<<1>>, <<2>>}
ValueVecs == {<<3>>}
DropoutArgs == {None, [p |-> 5, training |-> FALSE], [p |-> 5, training |-> TRUE]}

Matrices(rows, cols, S) == [1..rows -> [1..cols -> S]]

MaskArgs(n_q, n_k) ==
    {None} \cup Matrices(1, n_k, BOOLEAN) \cup Matrices(n_q, n_k, BOOLEAN)

KeepDraws(d, n_q, n_k) ==
    IF d # None /\ DropoutActive(d)
    THEN Matrices(n_q, n_k, BOOLEAN)
    ELSE {[i \in 1..n_q |-> [j \in 1..n_k |-> TRUE]]}

CallAttention ==
    /\ attnIn = None
    /\ \E n_q \in QueryLens, n_k \in 1..MaxKeys :
       \E query \in [1..n_q -> QueryVecs], key \in [1..n_k -> KeyVecs],
          value \in [1..n_k -> ValueVecs], mask \in MaskArgs(n_q, n_k),
          dropout \in DropoutArgs :
       \E keep \in KeepDraws(dropout, n_q, n_k) :
          /\ attnIn' = [query |-> query, key |-> key, value |-> value,
                        mask |-> mask, dropout |-> dropout, keep |-> keep]
          /\ attnOut' = attention(query, key, value, mask, dropout, keep)
    /\ UNCHANGED <<hp, status, model, xavier, training, attnCache, calls, last,
                   causal>>

InitAttn ==
    /\ hp = None /\ status = "new" /\ model = <<>> /\ xavier = <<>>
    /\ training = TRUE /\ attnCache = <<>> /\ calls = 0 /\ last = None
    /\ causal = None /\ attnIn = None /\ attnOut = None

NextAttn == CallAttention

SpecAttn == InitAttn /\ [][NextAttn]_vars

(***************************************************************************)
(* C5: weights of forbidden positions.                                     *)
(***************************************************************************)
\* The weight num/den is below 1e-6 (num * 10^6 < den, without the product).
Below1e6(w) == w[1] < (w[2] + 999999) \div 1000000

DropoutOff(d) == d = None \/ ~DropoutActive(d)

Forbidden(mask, i, j) == MaskAt(mask, i, j) = FALSE

\* Row i has a permitted key whose score lies at least 14 above the
\* sentinel (e^-14 < 1e-6).
HasLiveKey(query, key, mask, i) ==
    \E j \in DOMAIN key :
        /\ ~Forbidden(mask, i, j)
        /\ Scores(query, key)[i][j] >= Sentinel + 14

FullyMasked(key, mask, i) == \A j \in DOMAIN key : Forbidden(mask, i, j)

AttnMasked ==
    /\ attnIn # None /\ attnIn.mask # None /\ DropoutOff(attnIn.dropout)
    /\ Broadcastable(attnIn.mask, Scores(attnIn.query, attnIn.key))

\* C5 as stated: with dropout off, every forbidden (query, key) pair has an
\* attention weight below 1e-6, whatever the mask and the row.
C5_AllMaskedWeightsTiny ==
    AttnMasked =>
        \A i \in DOMAIN attnIn.query, j \in DOMAIN attnIn.key :
            Forbidden(attnIn.mask, i, j) => Below1e6(attnOut.p_attn[i][j])

\* C5 amended: with dropout off, a forbidden pair has weight below 1e-6 in
\* every query row that has a permitted key scoring at least 14 above the
\* sentinel -1e9; a fully masked row gets the uniform weight 1/n on every
\* (forbidden) key.
C5_MaskedWeightsTinyInLiveRows ==
    AttnMasked =>
        \A i \in DOMAIN attnIn.query :
            /\ HasLiveKey(attnIn.query, attnIn.key, attnIn.mask, i) =>
                  \A j \in DOMAIN attnIn.key :
                      Forbidden(attnIn.mask, i, j) =>
                          Below1e6(attnOut.p_attn[i][j])
            /\ FullyMasked(attnIn.key, attnIn.mask, i) =>
                  \A j \in DOMAIN attnIn.key :
                      attnOut.p_attn[i][j][1] * Len(attnIn.key)
                          = attnOut.p_attn[i][j][2]

\* A call with dropout off whose mask forbids one key of a row and permits
\* another, and one whose mask forbids every key of a row of two keys.
C5_Witness ==
    /\ AttnMasked
    /\ \E i \in DOMAIN attnIn.query :
          /\ HasLiveKey(attnIn.query, attnIn.key, attnIn.mask, i)
          /\ \E j \in DOMAIN attnIn.key : Forbidden(attnIn.mask, i, j)
    /\ \E i \in DOMAIN attnIn.query :
          /\ FullyMasked(attnIn.key, attnIn.mask, i)
          /\ Len(attnIn.key) = 2

(***************************************************************************)
(* Claims about construction (SpecBuild).                                  *)
(***************************************************************************)
Params(m) == PathsOf(m, {"param"})

\* C1: make_model succeeds if and only if d_model mod h = 0.
C1_BuiltIffDivisible ==
    status # "new" => (status = "built" <=> hp.d_model % hp.h = 0)

\* C3: in the model make_model returns, no two parameters (attribute paths)
\* share storage: layers of a stack, the two attentions of a decoder layer,
\* the four projections of an attention, the sublayer connections of a layer
\* and the two embedding pipelines all own pairwise distinct tensors.
C3_NoSharedStorage ==
    status = "built" =>
        \A a, b \in PathsOf(model, {"param", "buffer"}) :
            a # b => model[a].id # model[b].id

C3_Witness ==
    /\ status = "built"
    /\ hp.N >= 2
    /\ <<"encoder", "layers", "0", "self_attn", "linears", "0", "weight">>
           \in Params(model)
    /\ <<"decoder", "layers", "1", "src_attn", "linears", "3", "weight">>
           \in Params(model)

\* C8: after make_model every parameter of rank >= 2 has been Xavier
\* initialised exactly once, every parameter of rank 1 not at all, and the
\* positional-encoding buffers are no parameters and are not initialised.
C8_XavierOnceOnMatrices ==
    status = "built" =>
        /\ \A p \in Params(model) :
              xavier[model[p].id] = IF model[p].dim >= 2 THEN 1 ELSE 0
        /\ \A p \in PathsOf(model, {"buffer"}) :
              /\ xavier[model[p].id] = 0
              /\ model[p].id \notin {q.id : q \in parameters(model)}

C8_Witness ==
    /\ status = "built"
    /\ \E p \in Params(model) : model[p].dim = 2 /\ xavier[model[p].id] = 1
    /\ \E p \in Params(model) : model[p].dim = 1 /\ xavier[model[p].id] = 0
    /\ \E p \in PathsOf(model, {"buffer"}) : model[p].dim = 3

\* C10: every dropout of the model built by make_model(..., dropout = r) has
\* rate r.
C10_EveryDropoutHasRate ==
    status = "built" =>
        \A p \in PathsOf(model, {"dropout"}) : model[p].val = hp.dropout

(***************************************************************************)
(* Claims about calls (Spec).                                              *)
(***************************************************************************)
IsPrefix(p, q) == Len(p) <= Len(q) /\ SubSeq(q, 1, Len(p)) = p

Called == last # None

Tape == last.t

MinOf(S) == CHOOSE x \in S : \A y \in S : x <= y

\* The masked_fill nodes of the self-attention of the decoder layers.
DecSelfFills ==
    {i \in DOMAIN Tape :
        /\ Tape[i].op = "masked_fill"
        /\ Len(Tape[i].mod) = 4
        /\ Tape[i].mod[1] = "decoder" /\ Tape[i].mod[4] = "self_attn"}

\* Every query position is forbidden every later key position.
NoLookAhead(mask) ==
    \A q, k \in 1..MaxLen : q < k => Forbidden(mask, q, k)

\* C2 as stated: whatever target mask is passed to decode or forward, the
\* self-attention of every decoder layer forbids every later position.
C2_SelfAttnAlwaysCausal ==
    (Called /\ last.op \in {"decode", "forward"}) =>
        \A i \in DecSelfFills : NoLookAhead(Tape[i].attr[1][1])

\* C2 amended: the self-attention of every decoder layer is masked by exactly
\* the target mask the caller passed (the decoder adds no causal mask); when
\* that mask is the AND of the causal mask and the padding mask, every later
\* position is forbidden.
C2_SelfAttnUsesPassedMask ==
    (Called /\ last.op \in {"decode", "forward"}) =>
        /\ {Tape[i].mod : i \in DecSelfFills}
             = {<<"decoder", "layers", Digits[k], "self_attn">> : k \in 1..hp.N}
        /\ Cardinality(DecSelfFills) = hp.N
        /\ \A i \in DecSelfFills : Tape[i].attr = Unsqueeze1(last.tgt_mask)
        /\ last.tgt_mask \in CausalTgtMasks =>
              \A i \in DecSelfFills : NoLookAhead(Tape[i].attr[1][1])

C2_Witness ==
    /\ Called /\ last.op = "forward" /\ hp.N >= 2
    /\ last.tgt_mask \in CausalTgtMasks
    /\ last.tgt_mask # last.src_mask
    /\ DecSelfFills # {}

DropoutDisabled ==
    ~training \/ \A p \in PathsOf(model, {"dropout"}) : model[p].val = 0

\* C6: with dropout disabled, the tape and the result of every call are those
\* of the same call on the freshly constructed model, whatever calls came
\* before and whatever they left in self.attn.
C6_NoStateLeak ==
    (Called /\ DropoutDisabled) =>
        LET fresh == Run(last.op, last.src_mask, last.tgt_mask, FreshCache, 1)
        IN  last.t = fresh.t /\ last.v = fresh.v

\* A second call in evaluation mode, run while self.attn of the modules it
\* uses still holds what the first call left there.
C6_Witness ==
    /\ Called /\ DropoutDisabled /\ calls = 2
    /\ last.op = "decode"
    /\ \A mod \in AttnModules(model) :
          mod[1] = "decoder" => attnCache[mod].call = 2
    /\ \E mod \in AttnModules(model) :
          mod[1] = "encoder" /\ attnCache[mod] # None /\ attnCache[mod].call = 1

\* The nodes executed by the sublayer function of the connection whose add
\* node is i: the run of nodes before its dropout that belong to the layer's
\* attention or feed-forward modules.
IsFnNode(j, i) ==
    /\ IsPrefix(SubSeq(Tape[i].mod, 1, 3), Tape[j].mod)
    /\ Tape[j].mod[4] # "sublayer"

FnNodes(i) ==
    {j \in 1..(i - 3) : \A m \in j..(i - 3) : IsFnNode(m, i)}

\* C7: every SublayerConnection.forward(x, f) computes x + norm(dropout(f(x))):
\* the add takes x and the output of the connection's norm, the norm takes
\* the output of the connection's dropout, the dropout takes the output of
\* the sublayer function, and the sublayer function reads x itself.
C7_ResidualAroundNormDropoutSublayer ==
    Called =>
        \A i \in {j \in DOMAIN Tape : Tape[j].op = "add"} :
            LET a == Tape[i]
                x == a.args[1]
                n == Tape[i - 1]
                d == Tape[i - 2]
                f == FnNodes(i)
            IN  /\ a.args = <<x, i - 1>>
                /\ n.op = "layernorm" /\ n.mod = a.mod \o <<"norm">>
                /\ n.args = <<i - 2>>
                /\ d.op = "dropout" /\ d.mod = a.mod \o <<"dropout">>
                /\ d.args = <<i - 3>>
                /\ f # {}
                /\ x < MinOf(f)
                /\ Tape[x].op # "layernorm"
                /\ Tape[MinOf(f)].args = <<x>>
                /\ \A j \in f : \A k \in DOMAIN Tape[j].args :
                      \/ Tape[j].args[k] >= MinOf(f)
                      \/ Tape[j].args[k] = x
                      \/ Tape[j].mod[4] = "src_attn"

C7_Witness ==
    /\ Called /\ last.op = "forward"
    /\ \E i \in DOMAIN Tape :
          /\ Tape[i].op = "add"
          /\ Tape[i].mod = <<"decoder", "layers", "0", "sublayer", "1">>

\* The nodes executed by layer k of a stack.
LayerNodes(stack, k) ==
    {i \in DOMAIN Tape : IsPrefix(<<stack, "layers", Digits[k]>>, Tape[i].mod)}

StacksOf(op) ==
    CASE op = "encode"  -> {"encoder"}
      [] op = "decode"  -> {"decoder"}
      [] op = "forward" -> {"encoder", "decoder"}

NormNodes(stack) == {i \in DOMAIN Tape : Tape[i].mod = <<stack, "norm">>}

\* The memory of the last call: the argument of decode, the result of encode
\* in forward.
MemoryOf(op) == IF op = "decode" THEN 1 ELSE MinOf(NormNodes("encoder"))

\* C9: a stack runs its layers in index order, each once, each on the output
\* of the one before, and then the final norm once, on the output of the last
\* layer; every decoder layer gets the same memory and the same masks.
C9_LayersInOrderThenNorm ==
    Called =>
        /\ \A stack \in StacksOf(last.op) :
              /\ \A k \in 1..hp.N :
                    LET nodes == LayerNodes(stack, k)
                    IN  /\ nodes # {}
                        /\ nodes = MinOf(nodes)..MaxOf(nodes)
                        /\ Tape[MaxOf(nodes)].op = "add"
                        /\ Cardinality({i \in nodes :
                               /\ Tape[i].op = "add"
                               /\ Tape[i].mod[Len(Tape[i].mod)] = "0"}) = 1
                        /\ k < hp.N =>
                              LET next == LayerNodes(stack, k + 1)
                              IN  /\ next # {}
                                  /\ MinOf(next) = MaxOf(nodes) + 1
                                  /\ Tape[MinOf(next)].args = <<MaxOf(nodes)>>
              /\ LayerNodes(stack, hp.N + 1) = {}
              /\ Cardinality(NormNodes(stack)) = 1
              /\ \A i \in NormNodes(stack) :
                    /\ i = MaxOf(LayerNodes(stack, hp.N)) + 1
                    /\ Tape[i].args = <<i - 1>>
        /\ last.op = "encode" => NormNodes("encoder") = {last.v}
        /\ last.op \in {"decode", "forward"} =>
              /\ NormNodes("decoder") = {last.v}
              /\ \A i \in DOMAIN Tape :
                    /\ (/\ Tape[i].op = "linear"
                        /\ Tape[i].mod[1] = "decoder"
                        /\ Tape[i].mod[4] = "src_attn"
                        /\ Tape[i].mod[6] \in {"1", "2"})
                          => Tape[i].args = <<MemoryOf(last.op)>>
                    /\ (/\ Tape[i].op = "masked_fill"
                        /\ Tape[i].mod[1] = "decoder")
                          => Tape[i].attr =
                                 Unsqueeze1(IF Tape[i].mod[4] = "self_attn"
                                            THEN last.tgt_mask
                                            ELSE last.src_mask)

C9_Witness ==
    /\ Called /\ last.op = "forward" /\ hp.N >= 2
    /\ LayerNodes("encoder", 2) # {} /\ LayerNodes("decoder", 2) # {}

(***************************************************************************)
(* Claims about subsequent_mask (SpecMask).                                *)
(***************************************************************************)
\* C4: subsequent_mask(n) is an n x n boolean matrix whose entry (i, j) is
\* TRUE if and only if j <= i; for n = 4 its rows are T F F F, T T F F,
\* T T T F, T T T T.
C4_LowerTriangular ==
    causal # None =>
        LET n == Len(causal[1])
        IN  /\ Len(causal) = 1
            /\ n >= 1
            /\ \A i \in 1..n :
                  /\ Len(causal[1][i]) = n
                  /\ \A j \in 1..n : causal[1][i][j] = (j <= i)
            /\ n = 4 =>
                  causal[1] = << <<TRUE, FALSE, FALSE, FALSE>>,
                                 <<TRUE, TRUE, FALSE, FALSE>>,
                                 <<TRUE, TRUE, TRUE, FALSE>>,
                                 <<TRUE, TRUE, TRUE, TRUE>> >>

C4_Witness == causal # None /\ Len(causal[1]) = 4

=============================================================================
